---- MODULE Spec2Model ----
(***************************************************************************)
(* The three AVL containers of namespace Homebrew:                         *)
(*   AvlMap   (avlmap.hpp)               key/value map, unique_ptr nodes    *)
(*   AvlTree  (avltree.hpp)              set, unique_ptr nodes              *)
(*   AvlTree  (avltree_raw_pointers.hpp) set, raw owning pointers           *)
(* A container is a root subtree plus the element counter sz.  A subtree   *)
(* owned through a pointer is the value Nil or a node record holding its   *)
(* two owned subtrees, so ownership is exclusive by construction.          *)
(* Definitions prefixed Map_, Set_ and Raw_ are translated from the three  *)
(* headers in that order.                                                  *)
(***************************************************************************)
EXTENDS Integers, Sequences, FiniteSets, TLC

\* ------------------------------------------------------------------ bounds
\* Keys are 1..MaxKey where only insert, remove/erase, min_element and
\* max_element are called, and 1..MaxKeyAnyCall where every operation is.
MaxKey == 5
MaxKeyAnyCall == 3
\* The counter sz is explored from MaxDrift below 0 to MaxDrift above MaxKey.
MaxDrift == 1

\* Keys are 1..MaxKeyTwoObjects where two objects are followed.
MaxKeyTwoObjects == 2
\* The call stack has room for MaxFrames frames of at(k) const.
MaxFrames == 3
\* balance(t) alone is applied to subtrees of at most MaxBalanceNodes nodes.
MaxBalanceNodes == 7

Keys == 1..MaxKey
KeysAnyCall == 1..MaxKeyAnyCall
KeysTwoObjects == 1..MaxKeyTwoObjects

Max(a, b) == IF a >= b THEN a ELSE b

\* ------------------------------------------------------------- std::size_t
\* sz is a 64-bit unsigned counter.  2^64 is beyond TLC's integers, so
\* the 64 bits are kept as four 16-bit limbs, most significant first.
SizeBits == 64
Limb == 2^16
NoLimbs == SizeBits \div 16

RECURSIVE IncAt(_, _)
IncAt(s, i) ==
    IF i = 0 THEN s
    ELSE IF s[i] = Limb - 1 THEN IncAt([s EXCEPT ![i] = 0], i - 1)
    ELSE [s EXCEPT ![i] = s[i] + 1]

RECURSIVE DecAt(_, _)
DecAt(s, i) ==
    IF i = 0 THEN s
    ELSE IF s[i] = 0 THEN DecAt([s EXCEPT ![i] = Limb - 1], i - 1)
    ELSE [s EXCEPT ![i] = s[i] - 1]

\* ++sz and --sz on std::size_t: arithmetic modulo 2^64.
SzInc(s) == IncAt(s, NoLimbs)
SzDec(s) == DecAt(s, NoLimbs)

\* The size_t holding the natural number n (n < 2^16).
SizeT(n) == [i \in 1..NoLimbs |-> IF i = NoLimbs THEN n ELSE 0]

\* The size_t 2^64 - n, what n decrements of 0 leave.
RECURSIVE SizeTBelowZero(_)
SizeTBelowZero(n) == IF n = 0 THEN SizeT(0) ELSE SzDec(SizeTBelowZero(n - 1))

\* The counter values the model explores.
SzWindow == {SizeT(n) : n \in 0..(MaxKey + MaxDrift)}
              \cup {SizeTBelowZero(n) : n \in 1..MaxDrift}

\* The counter values explored where two objects are followed.
SzWindowTwoObjects == {SizeT(n) : n \in 0..MaxKeyTwoObjects}

\* An absent subtree (nullptr).
Nil == <<>>

\* ------------------------------------------------------------------ AvlMap
Map_Node(k, v, lt, rt, h) ==
    [left |-> lt, right |-> rt, key |-> k, value |-> v, height |-> h]

Map_height(node) == IF node = Nil THEN -1 ELSE node.height

Map_ALLOWED_IMBALANCE == 1

\* Value(): the value-initialised int of AvlMap<int,int>.
Map_DefaultValue == 0
\* A value main() assigns: e[5] = 200.
Main_AssignedValue == 200
\* The values put into the map.  The code stores, copies and returns values
\* and never inspects one, so two distinct values tell every copy, overwrite
\* and default apart.
Values == {Map_DefaultValue, Main_AssignedValue}

Map_rotateWithLeftChild(k2) ==
    LET k1  == k2.left
        k2a == [k2 EXCEPT !.left = k1.right]
        k2b == [k2a EXCEPT !.height =
                   Max(Map_height(k2a.left), Map_height(k2a.right)) + 1]
        k1a == [k1 EXCEPT !.height = Max(Map_height(k1.left), k2b.height) + 1]
    IN  [k1a EXCEPT !.right = k2b]

Map_rotateWithRightChild(k1) ==
    LET k2  == k1.right
        k1a == [k1 EXCEPT !.right = k2.left]
        k1b == [k1a EXCEPT !.height =
                   Max(Map_height(k1a.left), Map_height(k1a.right)) + 1]
        k2a == [k2 EXCEPT !.height = Max(Map_height(k2.right), k1b.height) + 1]
    IN  [k2a EXCEPT !.left = k1b]

Map_doubleWithLeftChild(k3) ==
    Map_rotateWithLeftChild(
        [k3 EXCEPT !.left = Map_rotateWithRightChild(k3.left)])

Map_doubleWithRightChild(k1) ==
    Map_rotateWithRightChild(
        [k1 EXCEPT !.right = Map_rotateWithLeftChild(k1.right)])

\* balance with > in place of >= in the two inner comparisons.
Map_balance_strictTie(t) ==
    IF t = Nil THEN t
    ELSE
      LET t1 ==
            IF Map_height(t.left) - Map_height(t.right) > Map_ALLOWED_IMBALANCE
            THEN IF Map_height(t.left.left) > Map_height(t.left.right)
                 THEN Map_rotateWithLeftChild(t)
                 ELSE Map_doubleWithLeftChild(t)
            ELSE IF Map_height(t.right) - Map_height(t.left) > Map_ALLOWED_IMBALANCE
            THEN IF Map_height(t.right.right) > Map_height(t.right.left)
                 THEN Map_rotateWithRightChild(t)
                 ELSE Map_doubleWithRightChild(t)
            ELSE t
      IN [t1 EXCEPT !.height =
              Max(Map_height(t1.left), Map_height(t1.right)) + 1]

Map_balance(t) ==
    IF t = Nil THEN t
    ELSE
      LET t1 ==
            IF Map_height(t.left) - Map_height(t.right) > Map_ALLOWED_IMBALANCE
            THEN IF Map_height(t.left.left) >= Map_height(t.left.right)
                 THEN Map_rotateWithLeftChild(t)
                 ELSE Map_doubleWithLeftChild(t)
            ELSE IF Map_height(t.right) - Map_height(t.left) > Map_ALLOWED_IMBALANCE
            THEN IF Map_height(t.right.right) >= Map_height(t.right.left)
                 THEN Map_rotateWithRightChild(t)
                 ELSE Map_doubleWithRightChild(t)
            ELSE t
      IN [t1 EXCEPT !.height =
              Max(Map_height(t1.left), Map_height(t1.right)) + 1]

RECURSIVE Map_insert_util(_, _, _)
Map_insert_util(k, v, t) ==
    IF t = Nil THEN Map_balance(Map_Node(k, v, Nil, Nil, 0))
    ELSE IF k < t.key
    THEN Map_balance([t EXCEPT !.left = Map_insert_util(k, v, t.left)])
    ELSE IF t.key < k
    THEN Map_balance([t EXCEPT !.right = Map_insert_util(k, v, t.right)])
    ELSE Map_balance(t)

RECURSIVE Map_findMin(_)
Map_findMin(node) ==
    IF node = Nil THEN Nil
    ELSE IF node.left # Nil THEN Map_findMin(node.left)
    ELSE node

RECURSIVE Map_findMax(_)
Map_findMax(node) ==
    IF node = Nil THEN Nil
    ELSE IF node.right # Nil THEN Map_findMax(node.right)
    ELSE node

\* Map_remove_util splicing in the right child whether or not there is a
\* left one.
RECURSIVE Map_remove_util_dropsLeft(_, _)
Map_remove_util_dropsLeft(x, t) ==
    IF t = Nil THEN t
    ELSE IF x < t.key
    THEN Map_balance([t EXCEPT !.left = Map_remove_util_dropsLeft(x, t.left)])
    ELSE IF t.key < x
    THEN Map_balance([t EXCEPT !.right = Map_remove_util_dropsLeft(x, t.right)])
    ELSE IF t.left # Nil /\ t.right # Nil
    THEN LET t1 == [t EXCEPT !.key = Map_findMin(t.right).key]
         IN  Map_balance([t1 EXCEPT !.right =
                              Map_remove_util_dropsLeft(t1.key, t1.right)])
    ELSE Map_balance(t.right)

RECURSIVE Map_remove_util(_, _)
Map_remove_util(x, t) ==
    IF t = Nil THEN t
    ELSE IF x < t.key
    THEN Map_balance([t EXCEPT !.left = Map_remove_util(x, t.left)])
    ELSE IF t.key < x
    THEN Map_balance([t EXCEPT !.right = Map_remove_util(x, t.right)])
    ELSE IF t.left # Nil /\ t.right # Nil
    THEN LET t1 == [t EXCEPT !.key = Map_findMin(t.right).key]
         IN  Map_balance([t1 EXCEPT !.right = Map_remove_util(t1.key, t1.right)])
    ELSE Map_balance(IF t.left # Nil THEN t.left ELSE t.right)

\* search(x, t) returns a reference to a pointer slot of the tree.  The slot
\* is named by the path of "left"/"right" steps from t that leads to it.
\* The loop's last case (neither x < key nor key < x) changes nothing and
\* loops again: Spin.
Spin == <<"spin">>

RECURSIVE Map_search_loop(_, _, _)
Map_search_loop(x, tmp, path) ==
    IF x < tmp.key
    THEN IF tmp.left = Nil \/ tmp.left.key = x
         THEN Append(path, "left")
         ELSE Map_search_loop(x, tmp.left, Append(path, "left"))
    ELSE IF tmp.key < x
    THEN IF tmp.right = Nil \/ tmp.right.key = x
         THEN Append(path, "right")
         ELSE Map_search_loop(x, tmp.right, Append(path, "right"))
    ELSE Spin

Map_search(x, t) ==
    IF t = Nil \/ t.key = x THEN <<>> ELSE Map_search_loop(x, t, <<>>)

\* The pointer held by the slot at path, and the tree with that slot rewritten.
RECURSIVE Deref(_, _)
Deref(t, path) ==
    IF path = <<>> THEN t
    ELSE IF Head(path) = "left" THEN Deref(t.left, Tail(path))
    ELSE Deref(t.right, Tail(path))

RECURSIVE Assign(_, _, _)
Assign(t, path, new) ==
    IF path = <<>> THEN new
    ELSE IF Head(path) = "left"
    THEN [t EXCEPT !.left = Assign(t.left, Tail(path), new)]
    ELSE [t EXCEPT !.right = Assign(t.right, Tail(path), new)]

\* bool search(const Key&): search(x, root) != nullptr
Map_contains(x, t) == Deref(t, Map_search(x, t)) # Nil

\* print(t): the in-order enumeration of (key, value).
RECURSIVE Map_print(_)
Map_print(t) ==
    IF t = Nil THEN <<>>
    ELSE Map_print(t.left) \o <<<<t.key, t.value>>>> \o Map_print(t.right)

\* at with the body of operator[] const: ptr != nullptr ? *ptr : Value().
Map_at_orDefault(k, c) ==
    LET ptr == Map_search(k, c.root)
    IN  IF Deref(c.root, ptr) = Nil THEN [kind |-> "value", val |-> Map_DefaultValue]
        ELSE [kind |-> "value", val |-> Deref(c.root, ptr).value]

\* Value& at(const Key&): the outcome of the call.
Map_at(k, c) ==
    LET ptr == Map_search(k, c.root)
    IN  IF Deref(c.root, ptr) = Nil THEN [kind |-> "out_of_range", val |-> 0]
        ELSE [kind |-> "value", val |-> Deref(c.root, ptr).value]

\* insert(k, v): the container after the call.
Map_insert(k, v, c) ==
    [root |-> Map_insert_util(k, v, c.root), sz |-> SzInc(c.sz)]

\* erase(k)
Map_erase(k, c) ==
    [root |-> Map_remove_util(k, c.root), sz |-> SzDec(c.sz)]

\* operator[] without the ++sz.
Map_subscript_noCount(k, c) ==
    LET ptr == Map_search(k, c.root)
    IN  IF Deref(c.root, ptr) = Nil
        THEN [root |-> Assign(c.root, ptr,
                              Map_insert_util(k, Map_DefaultValue, Nil)),
              sz |-> c.sz, ref |-> ptr]
        ELSE [root |-> c.root, sz |-> c.sz, ref |-> ptr]

\* Value& operator[](const Key&): the container after the call and the slot
\* whose node the returned reference points into.
Map_subscript(k, c) ==
    LET ptr == Map_search(k, c.root)
    IN  IF Deref(c.root, ptr) = Nil
        THEN [root |-> Assign(c.root, ptr,
                              Map_insert_util(k, Map_DefaultValue, Nil)),
              sz |-> SzInc(c.sz), ref |-> ptr]
        ELSE [root |-> c.root, sz |-> c.sz, ref |-> ptr]

\* clone without its last argument: every new node gets Node's default h = 0.
RECURSIVE Map_clone_defaultHeight(_)
Map_clone_defaultHeight(node) ==
    IF node = Nil THEN Nil
    ELSE Map_Node(node.key, node.value,
                  Map_clone_defaultHeight(node.left),
                  Map_clone_defaultHeight(node.right), 0)

\* clone(node): a new node for every node of the tree, with the same key,
\* value and height.
RECURSIVE Map_clone(_)
Map_clone(node) ==
    IF node = Nil THEN Nil
    ELSE Map_Node(node.key, node.value,
                  Map_clone(node.left), Map_clone(node.right), node.height)

\* AvlMap(const AvlMap& other)
Map_copy_construct(other) == [root |-> Map_clone(other.root), sz |-> other.sz]

\* operator=(const AvlMap& other): tmp(other), then root and sz are swapped
\* with tmp's, and tmp is destroyed with what the object held.
Map_copy_assign(c, other) ==
    LET tmp == Map_copy_construct(other)
    IN  [root |-> tmp.root, sz |-> tmp.sz]

\* AvlMap(AvlMap&& other): AvlMap(), then root and sz are swapped with other's.
\* The new object and what is left in other.
Map_move_construct(other) ==
    LET new == [root |-> Nil, sz |-> SizeT(0)]
    IN  [this  |-> [root |-> other.root, sz |-> other.sz],
         other |-> [root |-> new.root, sz |-> new.sz]]

\* operator=(AvlMap&& other): root and sz are swapped with other's.
Map_move_assign(c, other) ==
    [this  |-> [root |-> other.root, sz |-> other.sz],
     other |-> [root |-> c.root, sz |-> c.sz]]

\* clear(): root.reset(nullptr); sz is not written.
Map_clear(c) == [root |-> Nil, sz |-> c.sz]

\* empty()
Map_empty(c) == c.sz = SizeT(0)

\* size()
Map_size(c) == c.sz


\* ------------------------------------------------------ AvlTree (avltree.hpp)
Set_Node(ele, lt, rt, h) == [left |-> lt, right |-> rt, data |-> ele, height |-> h]

Set_height(node) == IF node = Nil THEN -1 ELSE node.height

Set_ALLOWED_IMBALANCE == 1

Set_rotateWithLeftChild(k2) ==
    LET k1  == k2.left
        k2a == [k2 EXCEPT !.left = k1.right]
        k2b == [k2a EXCEPT !.height =
                   Max(Set_height(k2a.left), Set_height(k2a.right)) + 1]
        k1a == [k1 EXCEPT !.height = Max(Set_height(k1.left), k2b.height) + 1]
    IN  [k1a EXCEPT !.right = k2b]

Set_rotateWithRightChild(k1) ==
    LET k2  == k1.right
        k1a == [k1 EXCEPT !.right = k2.left]
        k1b == [k1a EXCEPT !.height =
                   Max(Set_height(k1a.left), Set_height(k1a.right)) + 1]
        k2a == [k2 EXCEPT !.height = Max(Set_height(k2.right), k1b.height) + 1]
    IN  [k2a EXCEPT !.left = k1b]

Set_doubleWithLeftChild(k3) ==
    Set_rotateWithLeftChild(
        [k3 EXCEPT !.left = Set_rotateWithRightChild(k3.left)])

Set_doubleWithRightChild(k1) ==
    Set_rotateWithRightChild(
        [k1 EXCEPT !.right = Set_rotateWithLeftChild(k1.right)])

Set_balance(t) ==
    IF t = Nil THEN t
    ELSE
      LET t1 ==
            IF Set_height(t.left) - Set_height(t.right) > Set_ALLOWED_IMBALANCE
            THEN IF Set_height(t.left.left) >= Set_height(t.left.right)
                 THEN Set_rotateWithLeftChild(t)
                 ELSE Set_doubleWithLeftChild(t)
            ELSE IF Set_height(t.right) - Set_height(t.left) > Set_ALLOWED_IMBALANCE
            THEN IF Set_height(t.right.right) >= Set_height(t.right.left)
                 THEN Set_rotateWithRightChild(t)
                 ELSE Set_doubleWithRightChild(t)
            ELSE t
      IN [t1 EXCEPT !.height =
              Max(Set_height(t1.left), Set_height(t1.right)) + 1]

\* insert_util and remove_util write the member sz while they recurse: they
\* take the counter s and give back the subtree t and the counter.
RECURSIVE Set_insert_util(_, _, _)
Set_insert_util(x, t, s) ==
    IF t = Nil
    THEN [t |-> Set_balance(Set_Node(x, Nil, Nil, 0)), sz |-> s]
    ELSE IF x < t.data
    THEN LET r == Set_insert_util(x, t.left, s)
         IN  [t |-> Set_balance([t EXCEPT !.left = r.t]), sz |-> r.sz]
    ELSE IF t.data < x
    THEN LET r == Set_insert_util(x, t.right, s)
         IN  [t |-> Set_balance([t EXCEPT !.right = r.t]), sz |-> r.sz]
    ELSE [t |-> Set_balance(t), sz |-> SzDec(s)]

RECURSIVE Set_findMin(_)
Set_findMin(node) ==
    IF node = Nil THEN Nil
    ELSE IF node.left # Nil THEN Set_findMin(node.left)
    ELSE node

RECURSIVE Set_findMax(_)
Set_findMax(node) ==
    IF node = Nil THEN Nil
    ELSE IF node.right # Nil THEN Set_findMax(node.right)
    ELSE node

RECURSIVE Set_remove_util(_, _, _)
Set_remove_util(x, t, s) ==
    IF t = Nil THEN [t |-> t, sz |-> s]
    ELSE IF x < t.data
    THEN LET r == Set_remove_util(x, t.left, s)
         IN  [t |-> Set_balance([t EXCEPT !.left = r.t]), sz |-> r.sz]
    ELSE IF t.data < x
    THEN LET r == Set_remove_util(x, t.right, s)
         IN  [t |-> Set_balance([t EXCEPT !.right = r.t]), sz |-> r.sz]
    ELSE IF t.data = x
    THEN [t |-> t, sz |-> SzInc(s)]
    ELSE IF t.left # Nil /\ t.right # Nil
    THEN LET t1 == [t EXCEPT !.data = Set_findMin(t.right).data]
             r  == Set_remove_util(t1.data, t1.right, s)
         IN  [t |-> Set_balance([t1 EXCEPT !.right = r.t]), sz |-> r.sz]
    ELSE [t |-> Set_balance(IF t.left # Nil THEN t.left ELSE t.right), sz |-> s]

\* Node* search(x, node): the node found, or Nil.
RECURSIVE Set_search(_, _)
Set_search(x, t) ==
    IF t = Nil THEN Nil
    ELSE IF x < t.data THEN Set_search(x, t.left)
    ELSE IF t.data < x THEN Set_search(x, t.right)
    ELSE t

\* bool search(const T&)
Set_contains(x, t) == Set_search(x, t) # Nil

RECURSIVE Set_print(_)
Set_print(t) ==
    IF t = Nil THEN <<>>
    ELSE Set_print(t.left) \o <<t.data>> \o Set_print(t.right)

Set_empty(c) == c.sz = SizeT(0)

\* insert(first)
Set_insert(x, c) ==
    LET r == Set_insert_util(x, c.root, c.sz)
    IN  [root |-> r.t, sz |-> SzInc(r.sz)]

\* remove(first)
Set_remove(x, c) ==
    LET r == Set_remove_util(x, c.root, c.sz)
    IN  [root |-> r.t, sz |-> SzDec(r.sz)]

\* clear(): root.reset(nullptr); sz is not written.
Set_clear(c) == [root |-> Nil, sz |-> c.sz]

\* size()
Set_size(c) == c.sz

\* clone(node)
RECURSIVE Set_clone(_)
Set_clone(node) ==
    IF node = Nil THEN Nil
    ELSE Set_Node(node.data, Set_clone(node.left), Set_clone(node.right),
                  node.height)

\* AvlTree(const AvlTree& other)
Set_copy_construct(other) == [root |-> Set_clone(other.root), sz |-> other.sz]

\* AvlTree(AvlTree&& other): AvlTree(), then root and sz are swapped with
\* other's.  The new object and what is left in other.
Set_move_construct(other) ==
    LET new == [root |-> Nil, sz |-> SizeT(0)]
    IN  [this  |-> [root |-> other.root, sz |-> other.sz],
         other |-> [root |-> new.root, sz |-> new.sz]]

\* operator=(AvlTree&& other): root and sz are swapped with other's.
Set_move_assign(c, other) ==
    [this  |-> [root |-> other.root, sz |-> other.sz],
     other |-> [root |-> c.root, sz |-> c.sz]]

\* Outcomes of a call.
Void == [kind |-> "void", val |-> 0]
Returned(v) == [kind |-> "value", val |-> v]
Throws(e) == [kind |-> e, val |-> 0]
Crash == [kind |-> "crash", val |-> 0]

\* *p with p == nullptr is undefined: Node::operator* then reads data through
\* a null this.  The read traps, or it yields whatever the address holds.
NullDeref == {Crash} \cup {Returned(g) : g \in Keys}

\* min_element() and max_element(): the set of outcomes the call can have.
Set_min_element(c) ==
    IF Set_empty(c) THEN {Throws("logic_error")}
    ELSE IF Set_findMin(c.root) = Nil THEN NullDeref
    ELSE {Returned(Set_findMin(c.root).data)}

Set_max_element(c) ==
    IF Set_empty(c) THEN {Throws("logic_error")}
    ELSE IF Set_findMax(c.root) = Nil THEN NullDeref
    ELSE {Returned(Set_findMax(c.root).data)}

\* ----------------------------------------- AvlTree (avltree_raw_pointers.hpp)
Raw_Node(ele, lt, rt, h) == [left |-> lt, right |-> rt, data |-> ele, height |-> h]

Raw_height(t) == IF t = Nil THEN -1 ELSE t.height

Raw_ALLOWED_IMBALANCE == 1

\* k1->right = k2 is written before the heights here; the heights read only
\* k2's children and k1->left, so the order changes nothing.
Raw_rotateWithLeftChild(k2) ==
    LET k1  == k2.left
        k2a == [k2 EXCEPT !.left = k1.right]
        k2b == [k2a EXCEPT !.height =
                   Max(Raw_height(k2a.left), Raw_height(k2a.right)) + 1]
        k1a == [k1 EXCEPT !.right = k2b]
    IN  [k1a EXCEPT !.height = Max(Raw_height(k1a.left), k2b.height) + 1]

Raw_rotateWithRightChild(k1) ==
    LET k2  == k1.right
        k1a == [k1 EXCEPT !.right = k2.left]
        k1b == [k1a EXCEPT !.height =
                   Max(Raw_height(k1a.left), Raw_height(k1a.right)) + 1]
        k2a == [k2 EXCEPT !.left = k1b]
    IN  [k2a EXCEPT !.height = Max(Raw_height(k2a.right), k1b.height) + 1]

Raw_doubleWithLeftChild(k3) ==
    Raw_rotateWithLeftChild(
        [k3 EXCEPT !.left = Raw_rotateWithRightChild(k3.left)])

Raw_doubleWithRightChild(k1) ==
    Raw_rotateWithRightChild(
        [k1 EXCEPT !.right = Raw_rotateWithLeftChild(k1.right)])

\* Raw_balance without the rotations: only the height is recomputed.
Raw_balance_noRotation(t) ==
    IF t = Nil THEN t
    ELSE [t EXCEPT !.height = Max(Raw_height(t.left), Raw_height(t.right)) + 1]

Raw_balance(t) ==
    IF t = Nil THEN t
    ELSE
      LET t1 ==
            IF Raw_height(t.left) - Raw_height(t.right) > Raw_ALLOWED_IMBALANCE
            THEN IF Raw_height(t.left.left) >= Raw_height(t.left.right)
                 THEN Raw_rotateWithLeftChild(t)
                 ELSE Raw_doubleWithLeftChild(t)
            ELSE IF Raw_height(t.right) - Raw_height(t.left) > Raw_ALLOWED_IMBALANCE
            THEN IF Raw_height(t.right.right) >= Raw_height(t.right.left)
                 THEN Raw_rotateWithRightChild(t)
                 ELSE Raw_doubleWithRightChild(t)
            ELSE t
      IN [t1 EXCEPT !.height =
              Max(Raw_height(t1.left), Raw_height(t1.right)) + 1]

RECURSIVE Raw_insert_util(_, _)
Raw_insert_util(x, t) ==
    IF t = Nil THEN Raw_balance(Raw_Node(x, Nil, Nil, 0))
    ELSE IF x < t.data
    THEN Raw_balance([t EXCEPT !.left = Raw_insert_util(x, t.left)])
    ELSE IF x > t.data
    THEN Raw_balance([t EXCEPT !.right = Raw_insert_util(x, t.right)])
    ELSE Raw_balance(t)

RECURSIVE Raw_findMin(_)
Raw_findMin(t) ==
    IF t = Nil THEN Nil
    ELSE IF t.left # Nil THEN Raw_findMin(t.left)
    ELSE t

RECURSIVE Raw_remove_util(_, _)
Raw_remove_util(x, t) ==
    IF t = Nil THEN t
    ELSE IF x < t.data
    THEN Raw_balance([t EXCEPT !.left = Raw_remove_util(x, t.left)])
    ELSE IF x > t.data
    THEN Raw_balance([t EXCEPT !.right = Raw_remove_util(x, t.right)])
    ELSE IF t.left # Nil /\ t.right # Nil
    THEN LET t1 == [t EXCEPT !.data = Raw_findMin(t.right).data]
         IN  Raw_balance([t1 EXCEPT !.right = Raw_remove_util(t1.data, t1.right)])
    ELSE Raw_balance(IF t.left # Nil THEN t.left ELSE t.right)

\* bool search(x, t)
RECURSIVE Raw_search(_, _)
Raw_search(x, t) ==
    IF t = Nil THEN FALSE
    ELSE IF x < t.data THEN Raw_search(x, t.left)
    ELSE IF t.data < x THEN Raw_search(x, t.right)
    ELSE TRUE

RECURSIVE Raw_print(_)
Raw_print(t) ==
    IF t = Nil THEN <<>>
    ELSE Raw_print(t.left) \o <<t.data>> \o Raw_print(t.right)

\* insert(first)
Raw_insert(x, c) == [root |-> Raw_insert_util(x, c.root), sz |-> SzInc(c.sz)]

\* remove(first)
Raw_remove(x, c) == [root |-> Raw_remove_util(x, c.root), sz |-> SzDec(c.sz)]

\* ------------------------------------------------------------------- state
VARIABLES
    impl,   \* which of the three classes the container is an object of
    root,   \* the member root
    sz,     \* the member sz
    live,   \* AvlMap: the keys put in and not erased since (history)
    last,   \* the last call: operation, whether its key was stored, outcome
    other,  \* a second object of the same class: its root and sz
    frames, \* the frames of at(k) const on the call stack (0: no such call)
    arg     \* balance(t) alone: the subtree t held when it was called

vars == <<impl, root, sz, live, last, other, frames, arg>>

Impls == {"AvlMap", "AvlTree", "AvlTreeRaw"}

Call(op, hit, res) == [op |-> op, hit |-> hit, res |-> res]

\* The container object.
This == [root |-> root, sz |-> sz]

\* Tree measures used to state the properties (all three node types have
\* left and right; the key is key in AvlMap and data in AvlTree).
KeyOf(n) == IF impl = "AvlMap" THEN n.key ELSE n.data

RECURSIVE InOrderKeys(_)
InOrderKeys(t) ==
    IF t = Nil THEN <<>>
    ELSE InOrderKeys(t.left) \o <<KeyOf(t)>> \o InOrderKeys(t.right)

RECURSIVE NodeCount(_)
NodeCount(t) == IF t = Nil THEN 0 ELSE 1 + NodeCount(t.left) + NodeCount(t.right)

RECURSIVE TrueHeight(_)
TrueHeight(t) ==
    IF t = Nil THEN -1 ELSE 1 + Max(TrueHeight(t.left), TrueHeight(t.right))

RECURSIVE Balanced(_)
Balanced(t) ==
    \/ t = Nil
    \/ /\ TrueHeight(t.left) - TrueHeight(t.right) \in {-1, 0, 1}
       /\ Balanced(t.left)
       /\ Balanced(t.right)

RECURSIVE HeightsCached(_)
HeightsCached(t) ==
    \/ t = Nil
    \/ /\ t.height = TrueHeight(t)
       /\ HeightsCached(t.left)
       /\ HeightsCached(t.right)

StrictlyAscending(seq) == \A i \in 1..(Len(seq) - 1) : seq[i] < seq[i + 1]

SeqRange(seq) == {seq[i] : i \in 1..Len(seq)}

\* The keys a traversal of the tree meets.
StoredKeys == SeqRange(InOrderKeys(root))

\* The sequence seq without its elements equal to x.
Without(seq, x) == SelectSeq(seq, LAMBDA e : e # x)

\* AvlMap(), AvlTree(): root{nullptr}, sz{0}
Init ==
    /\ impl \in Impls
    /\ root = Nil
    /\ sz = SizeT(0)
    /\ live = {}
    /\ last = Call("ctor", FALSE, Void)
    /\ other = [root |-> Nil, sz |-> SizeT(0)]
    /\ frames = 0
    /\ arg = Nil

\* The call, made while no other call is running, leaves the container c
\* behind.
Becomes(c) ==
    /\ frames = 0
    /\ c.sz \in SzWindow
    /\ root' = c.root
    /\ sz' = c.sz
    /\ UNCHANGED <<impl, arg, other, frames>>

MapInsert(k, v) ==
    /\ impl = "AvlMap"
    /\ Becomes(Map_insert(k, v, This))
    /\ live' = live \cup {k}
    /\ last' = Call("insert", k \in StoredKeys, Void)

MapErase(k) ==
    /\ impl = "AvlMap"
    /\ Becomes(Map_erase(k, This))
    /\ live' = live \ {k}
    /\ last' = Call("erase", k \in StoredKeys, Void)

\* m[k], read through the returned reference.
MapSubscriptRead(k) ==
    /\ impl = "AvlMap"
    /\ live' = live \cup {k}
    /\ LET c == Map_subscript(k, This)
       IN  /\ Becomes(c)
           /\ last' = Call("subscript", k \in StoredKeys,
                           Returned(Deref(c.root, c.ref).value))

\* m[k] = v, written through the returned reference.
MapSubscriptWrite(k, v) ==
    /\ impl = "AvlMap"
    /\ live' = live \cup {k}
    /\ last' = Call("subscript=", k \in StoredKeys, Void)
    /\ LET c == Map_subscript(k, This)
           n == Deref(c.root, c.ref)
       IN  Becomes([root |-> Assign(c.root, c.ref, [n EXCEPT !.value = v]),
                    sz |-> c.sz])

SetInsert(x) ==
    /\ impl = "AvlTree"
    /\ Becomes(Set_insert(x, This))
    /\ last' = Call("insert", x \in StoredKeys, Void)
    /\ UNCHANGED live

SetRemove(x) ==
    /\ impl = "AvlTree"
    /\ Becomes(Set_remove(x, This))
    /\ last' = Call("remove", x \in StoredKeys, Void)
    /\ UNCHANGED live

SetClear ==
    /\ impl = "AvlTree"
    /\ Becomes(Set_clear(This))
    /\ last' = Call("clear", FALSE, Void)
    /\ UNCHANGED live

SetMinElement ==
    /\ impl = "AvlTree"
    /\ \E r \in Set_min_element(This) : last' = Call("min_element", FALSE, r)
    /\ UNCHANGED <<impl, arg, root, sz, live, other, frames>>

SetMaxElement ==
    /\ impl = "AvlTree"
    /\ \E r \in Set_max_element(This) : last' = Call("max_element", FALSE, r)
    /\ UNCHANGED <<impl, arg, root, sz, live, other, frames>>

RawInsert(x) ==
    /\ impl = "AvlTreeRaw"
    /\ Becomes(Raw_insert(x, This))
    /\ last' = Call("insert", x \in StoredKeys, Void)
    /\ UNCHANGED live

RawRemove(x) ==
    /\ impl = "AvlTreeRaw"
    /\ Becomes(Raw_remove(x, This))
    /\ last' = Call("remove", x \in StoredKeys, Void)
    /\ UNCHANGED live

\* Every sequence of insert and remove/erase calls, on each class.
NextInsertRemove ==
    \/ \E k \in Keys, v \in Values : MapInsert(k, v)
    \/ \E k \in Keys : MapErase(k)
    \/ \E x \in Keys : SetInsert(x)
    \/ \E x \in Keys : SetRemove(x)
    \/ \E x \in Keys : RawInsert(x)
    \/ \E x \in Keys : RawRemove(x)

SpecInsertRemove == Init /\ [][NextInsertRemove]_vars

\* Every sequence of insert, erase/remove and operator[] calls, and of clear,
\* min_element and max_element calls on AvlTree of avltree.hpp.
Next ==
    \/ \E k \in KeysAnyCall, v \in Values : MapInsert(k, v)
    \/ \E k \in KeysAnyCall : MapErase(k)
    \/ \E k \in KeysAnyCall : MapSubscriptRead(k)
    \/ \E k \in KeysAnyCall, v \in Values : MapSubscriptWrite(k, v)
    \/ \E x \in KeysAnyCall : SetInsert(x)
    \/ \E x \in KeysAnyCall : SetRemove(x)
    \/ SetClear
    \/ SetMinElement
    \/ SetMaxElement
    \/ \E x \in KeysAnyCall : RawInsert(x)
    \/ \E x \in KeysAnyCall : RawRemove(x)

Spec == Init /\ [][Next]_vars

\* Every sequence of insert, remove/erase, min_element and max_element calls.
NextInsertRemoveMinMax ==
    \/ NextInsertRemove
    \/ SetMinElement
    \/ SetMaxElement

SpecInsertRemoveMinMax == Init /\ [][NextInsertRemoveMinMax]_vars

\* ------------------------------------------------------------ two objects
\* The second object.
Other == [root |-> other.root, sz |-> other.sz]

\* The keys a traversal of the second object's tree meets.
OtherStoredKeys == SeqRange(InOrderKeys(other.root))

\* A call on the object or between the two objects leaves c behind as the
\* object and d as the second object.
BecomeBoth(c, d) ==
    /\ frames = 0
    /\ c.sz \in SzWindowTwoObjects
    /\ d.sz \in SzWindowTwoObjects
    /\ root' = c.root
    /\ sz' = c.sz
    /\ other' = d
    /\ live' = IF impl = "AvlMap" THEN SeqRange(InOrderKeys(c.root)) ELSE live
    /\ UNCHANGED <<impl, arg, frames>>

\* AvlMap b(a);
MapCopyConstruct ==
    /\ impl = "AvlMap"
    /\ BecomeBoth(This, Map_copy_construct(This))
    /\ last' = Call("copy", FALSE, Void)

\* b = a;
MapCopyAssign ==
    /\ impl = "AvlMap"
    /\ BecomeBoth(This, Map_copy_assign(Other, This))
    /\ last' = Call("copy=", FALSE, Void)

\* AvlMap b(std::move(a));
MapMoveConstruct ==
    /\ impl = "AvlMap"
    /\ LET r == Map_move_construct(This) IN BecomeBoth(r.other, r.this)
    /\ last' = Call("move", FALSE, Void)

\* b = std::move(a);
MapMoveAssign ==
    /\ impl = "AvlMap"
    /\ LET r == Map_move_assign(Other, This) IN BecomeBoth(r.other, r.this)
    /\ last' = Call("move=", FALSE, Void)

\* b.insert(k, v);
MapInsertOther(k, v) ==
    /\ impl = "AvlMap"
    /\ BecomeBoth(This, Map_insert(k, v, Other))
    /\ last' = Call("b.insert", FALSE, Void)

\* b.erase(k);
MapEraseOther(k) ==
    /\ impl = "AvlMap"
    /\ BecomeBoth(This, Map_erase(k, Other))
    /\ last' = Call("b.erase", FALSE, Void)

\* b[k] = v;
MapSubscriptWriteOther(k, v) ==
    /\ impl = "AvlMap"
    /\ last' = Call("b.subscript=", FALSE, Void)
    /\ LET c == Map_subscript(k, Other)
           n == Deref(c.root, c.ref)
       IN  BecomeBoth(This,
                      [root |-> Assign(c.root, c.ref, [n EXCEPT !.value = v]),
                       sz |-> c.sz])

\* AvlTree b(a);
SetCopyConstruct ==
    /\ impl = "AvlTree"
    /\ BecomeBoth(This, Set_copy_construct(This))
    /\ last' = Call("copy", FALSE, Void)

\* AvlTree b(std::move(a));
SetMoveConstruct ==
    /\ impl = "AvlTree"
    /\ LET r == Set_move_construct(This) IN BecomeBoth(r.other, r.this)
    /\ last' = Call("move", FALSE, Void)

\* b = std::move(a);
SetMoveAssign ==
    /\ impl = "AvlTree"
    /\ LET r == Set_move_assign(Other, This) IN BecomeBoth(r.other, r.this)
    /\ last' = Call("move=", FALSE, Void)

InitTwoObjects == Init /\ impl \in {"AvlMap", "AvlTree"}

\* Every sequence of insert, erase and operator[] calls on two maps a and b
\* and of copies of a into b.
NextCopy ==
    /\ \/ \E k \in KeysTwoObjects, v \in Values : MapInsert(k, v)
       \/ \E k \in KeysTwoObjects : MapErase(k)
       \/ \E k \in KeysTwoObjects : MapSubscriptWrite(k, Main_AssignedValue)
       \/ \E k \in KeysTwoObjects, v \in Values : MapInsertOther(k, v)
       \/ \E k \in KeysTwoObjects : MapEraseOther(k)
       \/ \E k \in KeysTwoObjects : MapSubscriptWriteOther(k, Main_AssignedValue)
       \/ MapCopyConstruct
       \/ MapCopyAssign
    /\ sz' \in SzWindowTwoObjects

SpecCopy == InitTwoObjects /\ [][NextCopy]_vars

\* Every sequence of insert and erase/remove calls on an object a, of copies
\* of a into a second object b, and of moves of a into b.
NextMove ==
    /\ \/ \E k \in KeysTwoObjects, v \in Values : MapInsert(k, v)
       \/ \E k \in KeysTwoObjects : MapErase(k)
       \/ MapCopyConstruct
       \/ MapMoveConstruct
       \/ MapMoveAssign
       \/ \E x \in KeysTwoObjects : SetInsert(x)
       \/ \E x \in KeysTwoObjects : SetRemove(x)
       \/ SetCopyConstruct
       \/ SetMoveConstruct
       \/ SetMoveAssign
    /\ sz' \in SzWindowTwoObjects

SpecMove == InitTwoObjects /\ [][NextMove]_vars

\* ------------------------------------------------------------ checked access
\* A call that has not returned.
Running == [kind |-> "running", val |-> 0]

\* m.at(k) on a non-const map.
MapAt(k) ==
    /\ impl = "AvlMap"
    /\ frames = 0
    /\ last' = Call("at", k \in StoredKeys, Map_at(k, This))
    /\ UNCHANGED <<impl, arg, root, sz, live, other, frames>>

\* m.at(k) on a const map: the const overload is entered.
MapAtConst(k) ==
    /\ impl = "AvlMap"
    /\ frames = 0
    /\ frames' = 1
    /\ last' = Call("at const", k \in StoredKeys, Running)
    /\ UNCHANGED <<impl, arg, root, sz, live, other>>

\* return at(k); inside at(k) const: this is const AvlMap*, so the call is
\* to at(k) const again.  It pushes a frame, or the build has made the tail
\* call a jump and the stack stays as it is.
MapAtConstRecurse ==
    /\ 0 < frames
    /\ frames < MaxFrames
    /\ last.res = Running
    /\ \E f \in {frames, frames + 1} : frames' = f
    /\ UNCHANGED <<impl, arg, root, sz, live, last, other>>

\* The call stack is exhausted: the process is killed, at(k) const has not
\* returned and nothing runs any more.
MapAtConstOverflow ==
    /\ frames = MaxFrames
    /\ last.res = Running
    /\ last' = [last EXCEPT !.res = Crash]
    /\ UNCHANGED <<impl, arg, root, sz, live, other, frames>>

InitAt == Init /\ impl = "AvlMap"

\* Every sequence of insert, erase, operator[] and at calls on a map.
NextAt ==
    \/ \E k \in KeysAnyCall, v \in Values : MapInsert(k, v)
    \/ \E k \in KeysAnyCall : MapErase(k)
    \/ \E k \in KeysAnyCall, v \in Values : MapSubscriptWrite(k, v)
    \/ \E k \in KeysAnyCall : MapAt(k)
    \/ \E k \in KeysAnyCall : MapAtConst(k)
    \/ MapAtConstRecurse
    \/ MapAtConstOverflow

SpecAt == InitAt /\ [][NextAt]_vars

\* The program keeps running: a call in progress takes its next step.
SpecAtRuns == SpecAt /\ WF_vars(MapAtConstRecurse \/ MapAtConstOverflow)

\* ------------------------------------------------------------ balance alone
\* The cached height of a subtree, in each class: height(t).
CachedHeight(i, t) ==
    IF i = "AvlMap" THEN Map_height(t)
    ELSE IF i = "AvlTree" THEN Set_height(t)
    ELSE Raw_height(t)

\* A node of class i.  In a map the keys carry the two values in turn.
NodeOfClass(i, k, lt, rt, h) ==
    IF i = "AvlMap"
    THEN Map_Node(k, IF k % 2 = 1 THEN Map_DefaultValue ELSE Main_AssignedValue,
                  lt, rt, h)
    ELSE IF i = "AvlTree" THEN Set_Node(k, lt, rt, h)
    ELSE Raw_Node(k, lt, rt, h)

\* The subtrees of class i that hold the keys lo..hi, are balanced within
\* ALLOWED_IMBALANCE at every node and cache the true height at every node:
\* what insert_util and remove_util leave below the slot they hand to balance.
RECURSIVE AvlSubtrees(_, _, _)
AvlSubtrees(i, lo, hi) ==
    IF lo > hi THEN {Nil}
    ELSE UNION {
        { NodeOfClass(i, r, p[1], p[2],
                      Max(CachedHeight(i, p[1]), CachedHeight(i, p[2])) + 1) :
            p \in { q \in AvlSubtrees(i, lo, r - 1) \X AvlSubtrees(i, r + 1, hi) :
                      CachedHeight(i, q[1]) - CachedHeight(i, q[2]) \in {-1, 0, 1} } }
        : r \in lo..hi }

\* The subtrees balance is called with: the two subtrees of t are as above
\* and differ in height by at most 2 (one of them has just grown or shrunk
\* by one), and t.height is still what it was before that, one too small or
\* one too large.
BalanceArguments(i) ==
    UNION {
        UNION {
            { NodeOfClass(i, r, p[1], p[2],
                          Max(CachedHeight(i, p[1]), CachedHeight(i, p[2])) + 1 + d) :
                d \in {-1, 1} }
            : p \in { q \in AvlSubtrees(i, 1, r - 1) \X AvlSubtrees(i, r + 1, n) :
                        CachedHeight(i, q[1]) - CachedHeight(i, q[2]) \in -2..2 } }
        : n \in 1..MaxBalanceNodes, r \in 1..MaxBalanceNodes }

InitBalance ==
    /\ impl \in Impls
    /\ arg \in BalanceArguments(impl)
    /\ root = arg
    /\ sz = SizeT(0)
    /\ live = {}
    /\ last = Call("balance", FALSE, Running)
    /\ other = [root |-> Nil, sz |-> SizeT(0)]
    /\ frames = 0

\* balance(t) on the slot that holds arg, in each class.
MapBalance ==
    /\ impl = "AvlMap"
    /\ last.res = Running
    /\ root' = Map_balance(root)
    /\ last' = Call("balance", FALSE, Void)
    /\ UNCHANGED <<impl, arg, sz, live, other, frames>>

SetBalance ==
    /\ impl = "AvlTree"
    /\ last.res = Running
    /\ root' = Set_balance(root)
    /\ last' = Call("balance", FALSE, Void)
    /\ UNCHANGED <<impl, arg, sz, live, other, frames>>

RawBalance ==
    /\ impl = "AvlTreeRaw"
    /\ last.res = Running
    /\ root' = Raw_balance(root)
    /\ last' = Call("balance", FALSE, Void)
    /\ UNCHANGED <<impl, arg, sz, live, other, frames>>

NextBalance == MapBalance \/ SetBalance \/ RawBalance

SpecBalance == InitBalance /\ [][NextBalance]_vars

\* ----------------------------------------------------------------- clear
\* m.clear();
MapClear ==
    /\ impl = "AvlMap"
    /\ Becomes(Map_clear(This))
    /\ live' = {}
    /\ last' = Call("clear", FALSE, Void)

InitClear == Init /\ impl \in {"AvlMap", "AvlTree"}

\* Every sequence of insert, erase/remove and clear calls on a map and on a
\* set of avltree.hpp.
NextClear ==
    \/ \E k \in KeysAnyCall, v \in Values : MapInsert(k, v)
    \/ \E k \in KeysAnyCall : MapErase(k)
    \/ MapClear
    \/ \E x \in KeysAnyCall : SetInsert(x)
    \/ \E x \in KeysAnyCall : SetRemove(x)
    \/ SetClear

SpecClear == InitClear /\ [][NextClear]_vars

\* ------------------------------------------------------------------ claims
\* The set S as the ascending sequence of its elements.
RECURSIVE SortedSeq(_)
SortedSeq(S) ==
    IF S = {} THEN <<>>
    ELSE LET m == CHOOSE x \in S : \A y \in S : x <= y
         IN  <<m>> \o SortedSeq(S \ {m})

\* The keys of the map's in-order enumeration.
MapKeysInOrder(t) == [i \in 1..Len(Map_print(t)) |-> Map_print(t)[i][1]]

\* C1: in each class, after every insert and remove/erase call, every node's
\* subtrees differ in true height by at most 1 and the in-order keys are
\* strictly ascending.
C1_BalancedAndOrdered ==
    /\ Balanced(root)
    /\ StrictlyAscending(InOrderKeys(root))

\* A stored key has just been erased from a map that held every key.
C1_Witness ==
    /\ impl = "AvlMap"
    /\ last.op = "erase"
    /\ last.hit
    /\ NodeCount(root) = MaxKey - 1

\* C2: in AvlMap, after every insert, erase and operator[], every cached
\* height is the true height and every node is balanced within 1.
C2_MapHeightsAndBalance ==
    impl = "AvlMap" => HeightsCached(root) /\ Balanced(root)

\* C3: in each class, after every insert and remove/erase call, size() is the
\* number of nodes reachable from root.
C3_SizeIsNodeCount == sz = SizeT(NodeCount(root))

\* C4: in AvlMap, after every insert and erase call, the in-order keys are
\* the keys put in and not erased since, ascending, and search(k) is true
\* exactly for those keys.
C4_RoundTrip ==
    impl = "AvlMap" =>
        /\ MapKeysInOrder(root) = SortedSeq(live)
        /\ \A k \in Keys : Map_contains(k, root) <=> k \in live

\* Every key put in, then MaxKey and MaxKey - 2 erased.
C4_Witness ==
    /\ impl = "AvlMap"
    /\ last.op = "erase"
    /\ last.hit
    /\ live = Keys \ {MaxKey, MaxKey - 2}
    /\ sz = SizeT(MaxKey - 2)

\* C5: in AvlTree of avltree.hpp, remove(x) of a stored x leaves search(x)
\* false, the in-order sequence without x, and size() one less.
C5_RemoveDeletes ==
    [][\A x \in Keys :
         (SetRemove(x) /\ x \in StoredKeys) =>
             /\ ~Set_contains(x, root')
             /\ Set_print(root') = Without(Set_print(root), x)
             /\ sz' = SzDec(sz)]_vars

\* C6: in each class, removing a key that is not stored leaves size() and the
\* in-order sequence as they were.
C6_RemoveAbsentIsNoOp ==
    [][\A k \in Keys :
         ((MapErase(k) \/ SetRemove(k) \/ RawRemove(k)) /\ k \notin StoredKeys) =>
             /\ sz' = sz
             /\ InOrderKeys(root') = InOrderKeys(root)]_vars

\* C7: AvlMap::insert(k, v2) of a stored k makes at(k) read v2 and leaves
\* size() and the set of keys unchanged.
C7_InsertOverwrites ==
    [][\A k \in Keys, v2 \in Values :
         (MapInsert(k, v2) /\ k \in StoredKeys) =>
             /\ Map_at(k, [root |-> root', sz |-> sz']) = Returned(v2)
             /\ sz' = sz
             /\ SeqRange(MapKeysInOrder(root')) = SeqRange(MapKeysInOrder(root))]_vars

\* The value the in-order enumeration of t pairs with the key k.
MapValueOf(k, t) ==
    LET e == Map_print(t)
    IN  e[CHOOSE i \in 1..Len(e) : e[i][1] = k][2]

\* C8: AvlMap::operator[](k) of a key that is not stored adds k with the
\* default value, increases size() by 1 and leaves every other key and value
\* as it was; operator[](k) of a stored key returns the stored value and
\* changes neither the map nor size().
C8_AccessOrInsert ==
    [][\A k \in KeysAnyCall :
         /\ (MapSubscriptRead(k) /\ k \notin StoredKeys) =>
                /\ SeqRange(Map_print(root')) =
                       SeqRange(Map_print(root)) \cup {<<k, Map_DefaultValue>>}
                /\ Len(Map_print(root')) = Len(Map_print(root)) + 1
                /\ sz' = SzInc(sz)
                /\ last'.res = Returned(Map_DefaultValue)
         /\ (MapSubscriptRead(k) /\ k \in StoredKeys) =>
                /\ Map_print(root') = Map_print(root)
                /\ sz' = sz
                /\ last'.res = Returned(MapValueOf(k, root))
         /\ \A v \in Values :
                MapSubscriptWrite(k, v) =>
                    /\ MapValueOf(k, root') = v
                    /\ \A j \in StoredKeys \ {k} :
                           MapValueOf(j, root') = MapValueOf(j, root)
                    /\ SeqRange(MapKeysInOrder(root')) = StoredKeys \cup {k}
                    /\ sz' = IF k \in StoredKeys THEN sz ELSE SzInc(sz)]_vars

\* operator[] has just added a key to a map that held others, one of them
\* with an assigned value.
C8_Witness ==
    /\ impl = "AvlMap"
    /\ last.op = "subscript"
    /\ ~last.hit
    /\ last.res = Returned(Map_DefaultValue)
    /\ NodeCount(root) >= 3
    /\ \E j \in StoredKeys : MapValueOf(j, root) = Main_AssignedValue

\* C9: in AvlTree of avltree.hpp, min_element() and max_element() called
\* while the tree holds no node fail with std::logic_error.
C9_EmptyThrows ==
    (impl = "AvlTree" /\ last.op \in {"min_element", "max_element"} /\ root = Nil)
        => last.res = Throws("logic_error")

\* C10: in AvlTree of avltree.hpp, min_element() and max_element() called
\* while the tree holds a node return the smallest and the largest stored key.
C10_MinMaxOfStored ==
    (impl = "AvlTree" /\ root # Nil) =>
        /\ last.op = "min_element" =>
               last.res = Returned(CHOOSE m \in StoredKeys : \A y \in StoredKeys : m <= y)
        /\ last.op = "max_element" =>
               last.res = Returned(CHOOSE m \in StoredKeys : \A y \in StoredKeys : m >= y)

\* C11: a copy-constructed or copy-assigned AvlMap b has the tree of a, node
\* for node (shape, keys, values, cached heights), and a's size; the copy
\* leaves a as it was; afterwards insert, erase and operator[] on b leave a's
\* in-order contents, values and size as they were, and the same calls on a
\* leave b's.  The step's call is the one last' names.
C11_DeepCopyIndependent ==
    [][/\ last'.op \in {"copy", "copy="} =>
              /\ other'.root = root
              /\ Map_size(other') = Map_size(This)
              /\ root' = root
              /\ sz' = sz
       /\ last'.op \in {"b.insert", "b.erase", "b.subscript="} =>
              /\ Map_print(root') = Map_print(root)
              /\ sz' = sz
       /\ last'.op \in {"insert", "erase", "subscript="} =>
              /\ Map_print(other'.root) = Map_print(other.root)
              /\ other'.sz = other.sz]_vars

\* b has just been copy-assigned from a map a that holds every key, one of
\* them with an assigned value.
C11_Witness ==
    /\ impl = "AvlMap"
    /\ last.op = "copy="
    /\ NodeCount(root) = MaxKeyTwoObjects
    /\ \E j \in StoredKeys : MapValueOf(j, root) = Main_AssignedValue
    /\ other.root = root
    /\ other.sz = sz

\* C12: in AvlMap and AvlTree, after b is move-constructed or move-assigned
\* from a, a holds no node and a.size() is 0, and b holds the tree and the
\* size a had.
C12_MoveLeavesSourceEmpty ==
    [][(MapMoveConstruct \/ MapMoveAssign \/ SetMoveConstruct \/ SetMoveAssign) =>
           /\ root' = Nil
           /\ sz' = SizeT(0)
           /\ other'.root = root
           /\ other'.sz = sz]_vars

\* C13: AvlMap::at(k) returns the value stored with k when k is stored and
\* fails with std::out_of_range when it is not, and leaves the tree and
\* size() as they were.
C13_CheckedAccess ==
    [][\A k \in KeysAnyCall :
         MapAt(k) =>
             /\ k \in StoredKeys => last'.res = Returned(MapValueOf(k, root))
             /\ k \notin StoredKeys => last'.res = Throws("out_of_range")
             /\ root' = root
             /\ sz' = sz]_vars

\* at(k) of a key that is not stored has just failed on a map that holds
\* other keys.
C13_Witness ==
    /\ last.op = "at"
    /\ ~last.hit
    /\ last.res = Throws("out_of_range")
    /\ NodeCount(root) = MaxKeyAnyCall - 1

\* C14: every call of a public operation of AvlMap that has started comes to
\* its end (insert, erase, operator[] and at are single steps here; at const
\* is in progress while frames > 0).
C14_EveryCallReturns == (frames > 0) ~> (frames = 0)

\* The node of t that holds the key k has two children.
MapHasTwoChildren(k, t) ==
    LET n == Deref(t, Map_search(k, t))
    IN  n # Nil /\ n.left # Nil /\ n.right # Nil

\* C15: AvlMap::erase(k) of a key whose node has two children leaves every
\* other key, the in-order successor of k among them, with the value it had.
C15_EraseKeepsOtherValues ==
    [][\A k \in Keys :
         (MapErase(k) /\ MapHasTwoChildren(k, root)) =>
             \A j \in StoredKeys \ {k} :
                 /\ Map_contains(j, root')
                 /\ MapValueOf(j, root') = MapValueOf(j, root)]_vars

\* t is left-heavy by 2 with its left child's subtrees of equal height.
LeftTie(t) ==
    /\ CachedHeight(impl, t.left) - CachedHeight(impl, t.right) = 2
    /\ CachedHeight(impl, t.left.left) = CachedHeight(impl, t.left.right)

\* t is right-heavy by 2 with its right child's subtrees of equal height.
RightTie(t) ==
    /\ CachedHeight(impl, t.right) - CachedHeight(impl, t.left) = 2
    /\ CachedHeight(impl, t.right.right) = CachedHeight(impl, t.right.left)

\* The in-order enumeration of t with everything but left, right and height.
ContentsInOrder(t) == IF impl = "AvlMap" THEN Map_print(t) ELSE InOrderKeys(t)

\* C16: balance(t) on a t that is left-heavy by 2 with
\* height(t.left.left) = height(t.left.right) does a single right rotation
\* (t.left becomes the root of the slot, t its right child, t.left.right
\* t's left subtree) and not a double one (t.left.right the root), and the
\* mirror image when right-heavy; afterwards the slot holds the same in-order
\* contents, every node is balanced within 1 and every cached height is
\* 1 + the larger of the children's heights.
C16_TieIsSingleRotation ==
    (last.op = "balance" /\ last.res = Void) =>
        /\ LeftTie(arg) =>
               /\ KeyOf(root) = KeyOf(arg.left)
               /\ root.left = arg.left.left
               /\ KeyOf(root.right) = KeyOf(arg)
               /\ root.right.left = arg.left.right
               /\ root.right.right = arg.right
        /\ RightTie(arg) =>
               /\ KeyOf(root) = KeyOf(arg.right)
               /\ root.right = arg.right.right
               /\ KeyOf(root.left) = KeyOf(arg)
               /\ root.left.right = arg.right.left
               /\ root.left.left = arg.left
        /\ (LeftTie(arg) \/ RightTie(arg)) =>
               /\ ContentsInOrder(root) = ContentsInOrder(arg)
               /\ Balanced(root)
               /\ HeightsCached(root)

\* balance has been applied to a map subtree that was left-heavy by 2 with a
\* tie below its left child, both of that child's subtrees holding nodes.
C16_Witness ==
    /\ impl = "AvlMap"
    /\ last.op = "balance"
    /\ last.res = Void
    /\ LeftTie(arg)
    /\ arg.left.left # Nil
    /\ root # arg

\* C17: in AvlMap and in AvlTree of avltree.hpp, clear() leaves no node,
\* size() 0 and empty() true, and each insert of a key that is not stored
\* adds one node and one to size(), so that n inserts of distinct keys after
\* a clear() give size() n.
C17_ClearEmpties ==
    [][/\ MapClear =>
              /\ root' = Nil
              /\ Map_size([root |-> root', sz |-> sz']) = SizeT(0)
              /\ Map_empty([root |-> root', sz |-> sz'])
       /\ SetClear =>
              /\ root' = Nil
              /\ Set_size([root |-> root', sz |-> sz']) = SizeT(0)
              /\ Set_empty([root |-> root', sz |-> sz'])
       /\ \A k \in KeysAnyCall :
              (k \notin StoredKeys
                   /\ (SetInsert(k) \/ \E v \in Values : MapInsert(k, v))) =>
                  /\ NodeCount(root') = NodeCount(root) + 1
                  /\ sz' = SzInc(sz)]_vars

====
